---- MODULE Spec2Model ----
(***************************************************************************)
(* MusterBot (src/musterbot.py): the check-in correlation maps, the        *)
(* response / leave / tdy / holidays tables and the handlers that read and *)
(* write them.                                                             *)
(*                                                                         *)
(* Representation                                                          *)
(*   - a Python dict is a function whose DOMAIN is the set of its keys;    *)
(*   - an SQLite table is the sequence of its rows in rowid order; the id  *)
(*     column is kept for responses, where INSERT OR REPLACE reads it;     *)
(*   - a calendar date is a day number, weekday() = day % 7 (0 = Monday);  *)
(*     day 0 is Monday 2024-10-28;                                         *)
(*   - a date string is the text itself ("2024-10-31");                    *)
(*   - an emoji is named by the "hint" of its STATUS_MAP entry;            *)
(*   - None is the string "None".                                          *)
(*                                                                         *)
(*   - a time of day is an hour, 0 .. 23: the clock is read on the hour;    *)
(*     an instant is a pair (day, hour) of the host's local clock;         *)
(*   - signal._crons is the list of the timer handles created so far.      *)
(*                                                                         *)
(* The messages table is a log that message_callback appends to and that   *)
(* no handler reads; it is not part of the state.                          *)
(***************************************************************************)
EXTENDS Integers, Sequences, FiniteSets, TLC

\* ------------------------------------------------------------------ bounds
MaxDay == 4
MaxTs == 3
MaxResponses == 2
MaxLeave == 1
MaxTdy == 2
MaxCrons == 7

\* ------------------------------------------------------- program constants
None == "None"
CHAT_ID == "group"
MUSTERBOT_ID == "+bot"
REPORTING_USER_ID == "u1"

STATUS_MAP ==
  [ e \in {"checkmark", "stopwatch", "house", "calendar", "thermometer",
           "palm tree", "question mark"} |->
    CASE e = "checkmark"     -> [text |-> "In at Normal Time", prompt |-> None]
      [] e = "stopwatch"     -> [text |-> "In Late",
                                 prompt |-> "What time do you expect to be in?"]
      [] e = "house"         -> [text |-> "Working from Home", prompt |-> None]
      [] e = "calendar"      -> [text |-> "Appointment",
                                 prompt |-> "What time do you expect to be in?"]
      [] e = "thermometer"   -> [text |-> "Out Sick", prompt |-> None]
      [] e = "palm tree"     -> [text |-> "Liberty", prompt |-> None]
      [] e = "question mark" -> [text |-> "Other",
                                 prompt |-> "Please provide your status for the day."] ]

\* ------------------------------------------------------------ environment
\* The Signal group: its members in the order get_group_info returns them.
\* The bot is a member of its own group.
GroupMembers ==
  << [uuid |-> "ub", number |-> "+bot"],
     [uuid |-> "u1", number |-> "+1"],
     [uuid |-> "u2", number |-> "+2"] >>

Humans == {"u1", "u2"}
Number(u) == CASE u = "u1" -> "+1" [] u = "u2" -> "+2" [] OTHER -> "+bot"

\* Inputs the handlers are exercised with.
ReactEmojis == {"checkmark", "stopwatch", "calendar"}
Texts == {"9am"}

\* ------------------------------------------------------------------ dates
\* The calendar the model runs over: day n is n days after Monday 2024-10-28.
Calendar ==
  << "2024-10-29", "2024-10-30", "2024-10-31", "2024-11-01", "2024-11-02",
     "2024-11-03", "2024-11-04", "2024-11-05", "2024-11-06" >>
Days == 0 .. Len(Calendar)

\* date.strftime("%Y-%m-%d")
strftime(d) == IF d = 0 THEN "2024-10-28" ELSE Calendar[d]
\* The same days in the ISO 8601 basic format, YYYYMMDD.
CompactCalendar ==
  << "20241029", "20241030", "20241031", "20241101", "20241102",
     "20241103", "20241104", "20241105", "20241106" >>
\* The texts date.fromisoformat reads as day d: the extended format and, since
\* Python 3.11, the basic format as well.
IsoTexts(d) == {strftime(d), IF d = 0 THEN "20241028" ELSE CompactCalendar[d]}
\* date.fromisoformat(s) raises ValueError unless s is a date text
IsIsoFormat(s) == \E d \in Days : s \in IsoTexts(d)
fromisoformat(s) == CHOOSE d \in Days : s \in IsoTexts(d)
\* date.weekday(): Monday is 0, Saturday 5, Sunday 6
weekday(d) == d % 7

\* ------------------------------------------------------------------ dicts
Put(dict, k, v) == [x \in (DOMAIN dict) \cup {k} |-> IF x = k THEN v ELSE dict[x]]
Pop(dict, k) == [x \in (DOMAIN dict) \ {k} |-> dict[x]]
EmptyDict == << >>

Truthy(s) == s \notin {None, ""}

VARIABLES
  today,             \* date.today()
  delivered,         \* the transport's outbound messages whose timestamp the bot
                     \* reads, by timestamp: the destination of each
  daily_message_ts,  \* dict: timestamp of a check-in post -> its date string
  update_status_ts,  \* dict: user uuid -> [timestamp, status, response_date]
  responses,         \* table responses
  leave,             \* table leave
  tdy,               \* table tdy
  holidays,          \* table holidays: dict holiday_date -> description
  sent,              \* the messages the last handler sent, in order
  db_locked,         \* another connection holds the write lock of the database:
                     \* every INSERT / DELETE raises sqlite3.OperationalError
  suspended,         \* the react_callback coroutines waiting for the transport's
                     \* answer to their detail prompt: their local variables
  config,            \* table config: dict key -> value
  crons,             \* signal._crons: the timer handles, in creation order
  hour,              \* datetime.now(): the hour of the host's local clock
  host_utc_offset    \* the host's zone: local time minus UTC, in hours

\* The scheduler's state and clock.
sched == << config, crons, hour, host_utc_offset >>

vars == << today, delivered, daily_message_ts, update_status_ts, responses, leave,
           tdy, holidays, sent, db_locked, suspended, config, crons, hour,
           host_utc_offset >>

\* ----------------------------------------------------------------- tables
MaxOf(S) == CHOOSE x \in S : \A y \in S : y <= x

\* INTEGER PRIMARY KEY: the rowid of a new row is one more than the largest
NextId(table) ==
  IF Len(table) = 0 THEN 1 ELSE MaxOf({table[i].id : i \in 1 .. Len(table)}) + 1

\* INSERT INTO table VALUES (row)
Insert(table, row) == Append(table, row)

\* INSERT OR REPLACE: rows that conflict with the new row on a PRIMARY KEY or
\* UNIQUE column are deleted first.  The only such column of responses is id
\* (CREATE TABLE responses, no UNIQUE (user_id, response_date)).
InsertOrReplace(table, row) ==
  Append(SelectSeq(table, LAMBDA r : r.id # row.id), row)

\* setup_database seeds admins with REPORTING_USER_ID
admins == {REPORTING_USER_ID}

\* ---------------------------------------------------------------- helpers
is_admin(user_id) == user_id \in admins

is_workday(check_date) ==
  IF weekday(check_date) >= 5
    THEN FALSE
    ELSE ~(strftime(check_date) \in DOMAIN holidays)

is_user_on_leave(user_id, check_date) ==
  \E i \in 1 .. Len(leave) :
     /\ leave[i].user_id = user_id
     /\ fromisoformat(leave[i].start_date) <= check_date
     /\ check_date <= fromisoformat(leave[i].end_date)

get_user_tdy_status(user_id, check_date) ==
  LET covering == { i \in 1 .. Len(tdy) :
                      /\ tdy[i].user_id = user_id
                      /\ fromisoformat(tdy[i].start_date) <= check_date
                      /\ check_date <= fromisoformat(tdy[i].end_date) }
  IN  IF covering = {}
        THEN None
        ELSE tdy[CHOOSE i \in covering : \A j \in covering : i <= j].description

\* The transport resolves a recipient it knows (a uuid or a number of a
\* contact); get_username_from_userid raises on result[0] otherwise.
KnownRecipient(r) ==
  \E i \in 1 .. Len(GroupMembers) :
     r = GroupMembers[i].uuid \/ r = GroupMembers[i].number

get_username_from_userid(user_id) == user_id

\* ResponsesDict keeping the first row of a user instead of the last.
ResponsesDict_first(today_str) ==
  LET rows == { i \in 1 .. Len(responses) : responses[i].response_date = today_str }
  IN  [ u \in { responses[i].user_id : i \in rows } |->
          LET first == CHOOSE i \in rows :
                          /\ responses[i].user_id = u
                          /\ \A j \in rows : responses[j].user_id = u => i <= j
          IN  << responses[first].response_text, responses[first].details >> ]

\* The dict post_daily_summary_callback builds from today's rows:
\* {row[0]: (row[1], row[2]) for row in fetchall()}; a later row of the same
\* user overwrites the earlier one.
ResponsesDict(today_str) ==
  LET rows == { i \in 1 .. Len(responses) : responses[i].response_date = today_str }
  IN  [ u \in { responses[i].user_id : i \in rows } |->
          LET last == MaxOf({ i \in rows : responses[i].user_id = u })
          IN  << responses[last].response_text, responses[last].details >> ]

\* status_line with the leave test ahead of the TDY test.
status_line_leave_first(user_id, check_date) ==
  LET tdy_status == get_user_tdy_status(user_id, check_date)
      resp == ResponsesDict(strftime(check_date))
  IN  IF is_user_on_leave(user_id, check_date)
        THEN [kind |-> "palm", text |-> "On Leave", details_text |-> ""]
      ELSE IF Truthy(tdy_status)
        THEN [kind |-> "plane", text |-> tdy_status, details_text |-> ""]
      ELSE IF user_id \in DOMAIN resp
        THEN [kind |-> "response", text |-> resp[user_id][1],
              details_text |-> IF Truthy(resp[user_id][2]) THEN resp[user_id][2] ELSE ""]
      ELSE [kind |-> "cross", text |-> "Not Checked In", details_text |-> ""]

\* status_line with the response test ahead of the leave test.
status_line_response_first(user_id, check_date) ==
  LET tdy_status == get_user_tdy_status(user_id, check_date)
      resp == ResponsesDict(strftime(check_date))
  IN  IF Truthy(tdy_status)
        THEN [kind |-> "plane", text |-> tdy_status, details_text |-> ""]
      ELSE IF user_id \in DOMAIN resp
        THEN [kind |-> "response", text |-> resp[user_id][1],
              details_text |-> IF Truthy(resp[user_id][2]) THEN resp[user_id][2] ELSE ""]
      ELSE IF is_user_on_leave(user_id, check_date)
        THEN [kind |-> "palm", text |-> "On Leave", details_text |-> ""]
      ELSE [kind |-> "cross", text |-> "Not Checked In", details_text |-> ""]

\* One user's line of the summary (post_daily_summary_callback, the loop
\* body): kind stands for the line's emoji prefix, details_text for the
\* " (details)" suffix, empty when details is None or "".
status_line(user_id, check_date) ==
  LET tdy_status == get_user_tdy_status(user_id, check_date)
      resp == ResponsesDict(strftime(check_date))
  IN  IF Truthy(tdy_status)
        THEN [kind |-> "plane", text |-> tdy_status, details_text |-> ""]
      ELSE IF is_user_on_leave(user_id, check_date)
        THEN [kind |-> "palm", text |-> "On Leave", details_text |-> ""]
      ELSE IF user_id \in DOMAIN resp
        THEN [kind |-> "response", text |-> resp[user_id][1],
              details_text |-> IF Truthy(resp[user_id][2]) THEN resp[user_id][2] ELSE ""]
      ELSE [kind |-> "cross", text |-> "Not Checked In", details_text |-> ""]

RECURSIVE SummaryLines(_, _)
SummaryLines(users, check_date) ==
  IF users = << >>
    THEN << >>
    ELSE << [user_name |-> get_username_from_userid(Head(users)),
             line |-> status_line(Head(users), check_date)] >>
         \o SummaryLines(Tail(users), check_date)

\* SummaryUsers without the filter on the bot's number.
SummaryUsers_unfiltered == [ i \in 1 .. Len(GroupMembers) |-> GroupMembers[i].uuid ]

\* [member['uuid'] for member in members if member['number'] != MUSTERBOT_ID]
SummaryUsers ==
  LET kept == SelectSeq(GroupMembers, LAMBDA m : m.number # MUSTERBOT_ID)
  IN  [ i \in 1 .. Len(kept) |-> kept[i].uuid ]

\* [member['uuid'] for member in members]
ReminderUsers == [ i \in 1 .. Len(GroupMembers) |-> GroupMembers[i].uuid ]

\* post_reminder_callback, the condition of the loop
NeedsReminder(user_id, check_date) ==
  /\ user_id \notin { responses[i].user_id :
                        i \in { j \in 1 .. Len(responses) :
                                  responses[j].response_date = strftime(check_date) } }
  /\ ~is_user_on_leave(user_id, check_date)
  /\ user_id # MUSTERBOT_ID

RECURSIVE Reminders(_, _)
Reminders(users, check_date) ==
  IF users = << >>
    THEN << >>
    ELSE (IF NeedsReminder(Head(users), check_date)
            THEN << [to |-> Head(users), what |-> "reminder"] >>
            ELSE << >>)
         \o Reminders(Tail(users), check_date)

\* The loop of post_reminder_callback when signal.send_message raises for
\* the recipients in raising: the loop has no try, the first send that
\* raises ends the callback.
RECURSIVE RemindersUntilRaise(_, _, _)
RemindersUntilRaise(users, check_date, raising) ==
  IF users = << >>
    THEN << >>
  ELSE IF ~NeedsReminder(Head(users), check_date)
    THEN RemindersUntilRaise(Tail(users), check_date, raising)
  ELSE IF Head(users) \in raising
    THEN << >>
  ELSE << [to |-> Head(users), what |-> "reminder"] >>
       \o RemindersUntilRaise(Tail(users), check_date, raising)

\* The timestamp the transport gives the next outbound message.
nextTs == Len(delivered) + 1

\* -------------------------------------------------------------- scheduler
\* The texts of the times of day the clock can show: ClockTexts[h + 1] is
\* hour h.
ClockTexts ==
  << "00:00", "01:00", "02:00", "03:00", "04:00", "05:00", "06:00", "07:00",
     "08:00", "09:00", "10:00", "11:00", "12:00", "13:00", "14:00", "15:00",
     "16:00", "17:00", "18:00", "19:00", "20:00", "21:00", "22:00", "23:00" >>
Hours == 0 .. Len(ClockTexts) - 1

\* map(int, local_time_str.split(':')) raises ValueError unless the text is
\* two integers around a colon
IsTimeText(s) == \E h \in Hours : ClockTexts[h + 1] = s
local_hour(s) == CHOOSE h \in Hours : ClockTexts[h + 1] = s
local_minute(s) == 0

\* f"{local_minute} {local_hour} * * 1-5"
cron_string(local_time_str) ==
  [minute |-> local_minute(local_time_str), hour |-> local_hour(local_time_str)]

\* An instant of the host's local clock: hours since Monday 2024-10-28 00:00.
Instant(d, h) == d * Len(ClockTexts) + h
DayOf(t) == t \div Len(ClockTexts)
HourOf(t) == t % Len(ClockTexts)
now == Instant(today, hour)

\* Cron(cron_str).schedule(ref).next(): the first instant at or after ref
\* that is on a weekday 1-5 (Monday to Friday) at the hour of the cron.
schedule_next(cron, ref) ==
  LET first_day == IF HourOf(ref) <= cron.hour THEN DayOf(ref) ELSE DayOf(ref) + 1
      day == CHOOSE d \in first_day .. first_day + 2 :
                /\ weekday(d) < 5
                /\ \A e \in first_day .. d - 1 : weekday(e) >= 5
  IN  Instant(day, cron.hour)

\* A timer handle that was cancelled or has fired.
Cancelled ==
  [hook |-> None, cron |-> [minute |-> 0, hour |-> 0], at |-> 0, armed |-> FALSE]

\* signal.stop_crons(): "Stop all the currently sleeping jobs"
stop_crons(handles) == [ i \in 1 .. Len(handles) |-> Cancelled ]

\* loop.call_later(delay, ...) with delay = next_schedule - ref, appended to
\* signal._crons; cron_hook is << cron string, callback >>.
add_cron_while_running(handles, cron_hook, ref) ==
  Append(handles, [hook |-> cron_hook[2], cron |-> cron_hook[1],
                   at |-> schedule_next(cron_hook[1], ref), armed |-> TRUE])

\* cron_jobs, in the order of its items()
JobNames == << "checkin", "reminder", "summary" >>
JobKey(job_name) ==
  CASE job_name = "checkin" -> "checkin_time"
    [] job_name = "reminder" -> "reminder_time"
    [] job_name = "summary" -> "summary_time"
JobDefault(job_name) ==
  CASE job_name = "checkin" -> "06:00"
    [] job_name = "reminder" -> "09:00"
    [] job_name = "summary" -> "10:00"
JobHook(job_name) ==
  CASE job_name = "checkin" -> "post_daily_checkin_callback"
    [] job_name = "reminder" -> "post_reminder_callback"
    [] job_name = "summary" -> "post_daily_summary_callback"

\* configs.get(key, default)
ConfigGet(configs, job_name) ==
  IF JobKey(job_name) \in DOMAIN configs
    THEN configs[JobKey(job_name)]
    ELSE JobDefault(job_name)

\* The loop of generate_cron_callbacks over the jobs left: a time text that
\* does not parse raises ValueError and ends the loop, the jobs after it get
\* no timer.
RECURSIVE AddJobs(_, _, _, _)
AddJobs(handles, jobs, configs, ref) ==
  IF jobs = << >>
    THEN handles
  ELSE IF ~IsTimeText(ConfigGet(configs, Head(jobs)))
    THEN handles
  ELSE AddJobs(add_cron_while_running(
                 handles,
                 << cron_string(ConfigGet(configs, Head(jobs))), JobHook(Head(jobs)) >>,
                 ref),
               Tail(jobs), configs, ref)

\* generate_cron_callbacks that does not stop the sleeping jobs first.
generate_cron_callbacks_keeps_old(handles, configs, ref) ==
  AddJobs(handles, JobNames, configs, ref)

\* The handles after generate_cron_callbacks has run at the instant ref.
generate_cron_callbacks(handles, configs, ref) ==
  AddJobs(stop_crons(handles), JobNames, configs, ref)

\* setup_database: INSERT OR IGNORE of the three times into config
SeedConfig ==
  [ k \in {"checkin_time", "reminder_time", "summary_time"} |->
      CASE k = "checkin_time" -> "06:00"
        [] k = "reminder_time" -> "09:00"
        [] k = "summary_time" -> "10:00" ]

\* main: signal.on_cron("0 6 * * 1-5", ...), ("0 8 ..."), ("0 10 ..."); the
\* timers are armed when signal.run() starts, at the instant ref.
StartupCrons(ref) ==
  add_cron_while_running(
    add_cron_while_running(
      add_cron_while_running(<< >>,
        << [minute |-> 0, hour |-> 6], "post_daily_checkin_callback" >>, ref),
      << [minute |-> 0, hour |-> 8], "post_reminder_callback" >>, ref),
    << [minute |-> 0, hour |-> 10], "post_daily_summary_callback" >>, ref)

\* The bot has just started at 05:00 of its start day.
InitOn(start_days, offsets) ==
  /\ today \in start_days
  /\ hour = 5
  /\ host_utc_offset \in offsets
  /\ delivered = << >>
  /\ daily_message_ts = EmptyDict
  /\ update_status_ts = EmptyDict
  /\ responses = << >>
  /\ leave = << >>
  /\ tdy = << >>
  /\ holidays = EmptyDict
  /\ sent = << >>
  /\ db_locked = FALSE
  /\ suspended = {}
  /\ config = SeedConfig
  /\ crons = StartupCrons(Instant(today, 5))

\* Started on Thursday 2024-10-31, on a host whose clock is UTC.
Init == InitOn({3}, {0})

\* ------------------------------------------------------------------ clock
\* A day passes: date.today() moves to the next day.
Tick ==
  /\ today < MaxDay
  /\ today' = today + 1
  /\ sent' = << >>
  /\ UNCHANGED << delivered, daily_message_ts, update_status_ts, responses, leave,
                  tdy, holidays, db_locked, suspended, sched >>

\* ---------------------------------------------------------- cron callbacks
\* Run by the cron trigger and by the /post_checkin, /post_reminder and
\* /post_summary commands.  They say nothing of crons: the timer that runs
\* one re-arms itself in the same step.
\* post_daily_checkin_callback without the workday test.
post_daily_checkin_callback_any_day ==
  /\ nextTs <= MaxTs
  /\ sent' = << [to |-> CHAT_ID, what |-> "checkin", timestamp |-> nextTs] >>
  /\ daily_message_ts' = Put(daily_message_ts, nextTs, strftime(today))
  /\ delivered' = Append(delivered, CHAT_ID)
  /\ UNCHANGED << today, update_status_ts, responses, leave, tdy, holidays,
                  db_locked, suspended, config, hour, host_utc_offset >>

\* post_daily_checkin_callback remembering the latest post only.
post_daily_checkin_callback_latest_only ==
  /\ IF ~is_workday(today)
       THEN /\ sent' = << >>
            /\ UNCHANGED << delivered, daily_message_ts >>
       ELSE /\ nextTs <= MaxTs
            /\ sent' = << [to |-> CHAT_ID, what |-> "checkin", timestamp |-> nextTs] >>
            /\ daily_message_ts' = Put(EmptyDict, nextTs, strftime(today))
            /\ delivered' = Append(delivered, CHAT_ID)
  /\ UNCHANGED << today, update_status_ts, responses, leave, tdy, holidays,
                  db_locked, suspended, config, hour, host_utc_offset >>

post_daily_checkin_callback ==
  /\ IF ~is_workday(today)
       THEN /\ sent' = << >>
            /\ UNCHANGED << delivered, daily_message_ts >>
       ELSE /\ nextTs <= MaxTs
            /\ sent' = << [to |-> CHAT_ID, what |-> "checkin", timestamp |-> nextTs] >>
            /\ daily_message_ts' = Put(daily_message_ts, nextTs, strftime(today))
            /\ delivered' = Append(delivered, CHAT_ID)
  /\ UNCHANGED << today, update_status_ts, responses, leave, tdy, holidays,
                  db_locked, suspended, config, hour, host_utc_offset >>

post_daily_summary_callback ==
  /\ IF ~is_workday(today)
       THEN sent' = << >>
       ELSE LET summary_text == SummaryLines(SummaryUsers, today)
            IN  sent' = << [to |-> CHAT_ID, what |-> "summary", lines |-> summary_text],
                           [to |-> "slack", what |-> "summary", lines |-> summary_text] >>
  /\ UNCHANGED << today, delivered, daily_message_ts, update_status_ts, responses,
                  leave, tdy, holidays, db_locked, suspended, config, hour,
                  host_utc_offset >>

post_reminder_callback ==
  /\ IF ~is_workday(today)
       THEN sent' = << >>
       ELSE sent' = Reminders(ReminderUsers, today)
  /\ UNCHANGED << today, delivered, daily_message_ts, update_status_ts, responses,
                  leave, tdy, holidays, db_locked, suspended, config, hour,
                  host_utc_offset >>

\* post_reminder_callback while the transport raises for the recipients in
\* raising.
post_reminder_callback_raising(raising) ==
  /\ IF ~is_workday(today)
       THEN sent' = << >>
       ELSE sent' = RemindersUntilRaise(ReminderUsers, today, raising)
  /\ UNCHANGED << today, delivered, daily_message_ts, update_status_ts, responses,
                  leave, tdy, holidays, db_locked, suspended, config, hour,
                  host_utc_offset >>

\* ------------------------------------------------------- message callbacks
\* A DataMessage: reaction is << >> (None) or << [emoji, isRemove,
\* targetSentTimestamp] >>; message is the text or None; quote is the
\* timestamp of the message this one replies to, 0 when it replies to none.
\* No handler reads quote.
\* react_callback testing the catalog entry instead of its prompt: every
\* recognized emoji opens a follow-up.
react_callback_prompts_always(message) ==
  LET reaction == message.reaction[1]
      today_str == daily_message_ts[reaction.targetSentTimestamp]
      emoji == reaction.emoji
  IN  IF emoji \notin DOMAIN STATUS_MAP
        THEN /\ sent' = << [to |-> message.sender_uuid, what |-> "unknown emoji"] >>
             /\ UNCHANGED << delivered, update_status_ts, responses >>
        ELSE /\ Len(delivered) < MaxTs
             /\ sent' = << [to |-> Number(message.sender_uuid), what |-> "prompt",
                            timestamp |-> Len(delivered) + 1] >>
             /\ update_status_ts' =
                  Put(update_status_ts, message.sender_uuid,
                      [timestamp |-> Len(delivered) + 1,
                       status |-> STATUS_MAP[emoji].text,
                       response_date |-> today_str])
             /\ delivered' = Append(delivered, Number(message.sender_uuid))
             /\ UNCHANGED responses

\* react_callback taking an emoji it does not know for the "Other" entry.
react_callback_unknown_as_other(message) ==
  LET reaction == message.reaction[1]
      today_str == daily_message_ts[reaction.targetSentTimestamp]
      emoji == IF reaction.emoji \in DOMAIN STATUS_MAP
                 THEN reaction.emoji ELSE "question mark"
  IN  IF STATUS_MAP[emoji].prompt # None
        THEN /\ Len(delivered) < MaxTs
             /\ sent' = << [to |-> Number(message.sender_uuid), what |-> "prompt",
                            timestamp |-> Len(delivered) + 1] >>
             /\ update_status_ts' =
                  Put(update_status_ts, message.sender_uuid,
                      [timestamp |-> Len(delivered) + 1,
                       status |-> STATUS_MAP[emoji].text,
                       response_date |-> today_str])
             /\ delivered' = Append(delivered, Number(message.sender_uuid))
             /\ UNCHANGED responses
        ELSE /\ Len(responses) < MaxResponses
             /\ responses' =
                  Insert(responses,
                         [id |-> NextId(responses), user_id |-> message.sender_uuid,
                          response_date |-> today_str,
                          response_text |-> STATUS_MAP[emoji].text, details |-> None])
             /\ sent' = << [to |-> message.sender_uuid, what |-> "thanks",
                            status |-> STATUS_MAP[emoji].text, date |-> today_str] >>
             /\ UNCHANGED << delivered, update_status_ts >>

react_callback(message) ==
  LET reaction == message.reaction[1]
      today_str == daily_message_ts[reaction.targetSentTimestamp]
      emoji == reaction.emoji
  IN  IF emoji \notin DOMAIN STATUS_MAP
        THEN /\ sent' = << [to |-> message.sender_uuid, what |-> "unknown emoji"] >>
             /\ UNCHANGED << delivered, update_status_ts, responses >>
      ELSE IF STATUS_MAP[emoji].prompt # None
        THEN /\ nextTs <= MaxTs
             /\ sent' = << [to |-> Number(message.sender_uuid), what |-> "prompt",
                            timestamp |-> nextTs] >>
             /\ update_status_ts' =
                  Put(update_status_ts, message.sender_uuid,
                      [timestamp |-> nextTs, status |-> STATUS_MAP[emoji].text,
                       response_date |-> today_str])
             /\ delivered' = Append(delivered, Number(message.sender_uuid))
             /\ UNCHANGED responses
      ELSE IF db_locked
        \* the INSERT raises; except Exception logs the error
        THEN /\ sent' = << >>
             /\ UNCHANGED << delivered, update_status_ts, responses >>
        ELSE /\ Len(responses) < MaxResponses
             /\ responses' =
                  Insert(responses,
                         [id |-> NextId(responses), user_id |-> message.sender_uuid,
                          response_date |-> today_str,
                          response_text |-> STATUS_MAP[emoji].text, details |-> None])
             /\ sent' = << [to |-> message.sender_uuid, what |-> "thanks",
                            status |-> STATUS_MAP[emoji].text, date |-> today_str] >>
             /\ UNCHANGED << delivered, update_status_ts >>

\* update_status_callback reading the entry without popping it.
update_status_callback_keeps_entry(message) ==
  LET status_update_info == update_status_ts[message.sender_uuid]
  IN  /\ Len(responses) < MaxResponses
      /\ responses' =
           InsertOrReplace(responses,
                           [id |-> NextId(responses), user_id |-> message.sender_uuid,
                            response_date |-> status_update_info.response_date,
                            response_text |-> status_update_info.status,
                            details |-> message.message])
      /\ sent' = << [to |-> message.sender_uuid, what |-> "updated",
                     status |-> status_update_info.status,
                     details |-> message.message] >>
      /\ UNCHANGED << delivered, update_status_ts >>

update_status_callback(message) ==
  LET status_update_info == update_status_ts[message.sender_uuid]
  IN  /\ update_status_ts' = Pop(update_status_ts, message.sender_uuid)
      /\ IF db_locked
           \* the INSERT OR REPLACE raises; except Exception logs the error
           THEN /\ sent' = << >>
                /\ UNCHANGED responses
           ELSE /\ Len(responses) < MaxResponses
                /\ responses' =
                     InsertOrReplace(responses,
                                     [id |-> NextId(responses),
                                      user_id |-> message.sender_uuid,
                                      response_date |-> status_update_info.response_date,
                                      response_text |-> status_update_info.status,
                                      details |-> message.message])
                /\ sent' = << [to |-> message.sender_uuid, what |-> "updated",
                               status |-> status_update_info.status,
                               details |-> message.message] >>
      /\ UNCHANGED delivered

\* message_callback taking a message of a user with a pending entry as the
\* reply wherever it was written.
message_callback_any_chat(context, message) ==
  /\ IF message.sender_uuid \in DOMAIN update_status_ts
       THEN update_status_callback(message)
     ELSE IF /\ context = CHAT_ID
             /\ message.reaction # << >>
             /\ ~message.reaction[1].isRemove
             /\ message.reaction[1].targetSentTimestamp \in DOMAIN daily_message_ts
       THEN react_callback(message)
       ELSE /\ sent' = << >>
            /\ UNCHANGED << delivered, update_status_ts, responses >>
  /\ UNCHANGED << today, daily_message_ts, leave, tdy, holidays, db_locked,
                  suspended, sched >>

message_callback(context, message) ==
  /\ IF context = CHAT_ID
       THEN IF /\ message.reaction # << >>
               /\ ~message.reaction[1].isRemove
               /\ message.reaction[1].targetSentTimestamp \in DOMAIN daily_message_ts
              THEN react_callback(message)
              ELSE /\ sent' = << >>
                   /\ UNCHANGED << delivered, update_status_ts, responses >>
       ELSE IF message.sender_uuid \in DOMAIN update_status_ts
              THEN update_status_callback(message)
              ELSE /\ sent' = << >>
                   /\ UNCHANGED << delivered, update_status_ts, responses >>
  /\ UNCHANGED << today, daily_message_ts, leave, tdy, holidays, db_locked,
                  suspended, sched >>

\* react_callback when the handlers of two events interleave, for an emoji
\* whose catalog entry has a prompt.  First part, up to "await response_task":
\* the prompt is on its way to the sender, stamped by the transport in the
\* order of the requests, and the coroutine waits for the transport's answer.
react_callback_send(message) ==
  LET reaction == message.reaction[1]
      today_str == daily_message_ts[reaction.targetSentTimestamp]
      emoji == reaction.emoji
  IN  /\ emoji \in DOMAIN STATUS_MAP
      /\ STATUS_MAP[emoji].prompt # None
      /\ nextTs <= MaxTs
      /\ sent' = << [to |-> Number(message.sender_uuid), what |-> "prompt",
                     timestamp |-> nextTs] >>
      /\ delivered' = Append(delivered, Number(message.sender_uuid))
      /\ suspended' = suspended \cup
                        { [sender_uuid |-> message.sender_uuid, timestamp |-> nextTs,
                           status |-> STATUS_MAP[emoji].text,
                           response_date |-> today_str] }
      /\ UNCHANGED << today, daily_message_ts, update_status_ts, responses, leave,
                      tdy, holidays, db_locked, sched >>

\* Second part: the answer to the send of coroutine h has come, h stores the
\* entry of its sender and returns.
react_callback_resume(h) ==
  /\ update_status_ts' =
       Put(update_status_ts, h.sender_uuid,
           [timestamp |-> h.timestamp, status |-> h.status,
            response_date |-> h.response_date])
  /\ suspended' = suspended \ {h}
  /\ sent' = << >>
  /\ UNCHANGED << today, delivered, daily_message_ts, responses, leave, tdy,
                  holidays, db_locked, sched >>

\* The events the transport delivers.
ReactionMessage(u, e, rm, t) ==
  [sender_uuid |-> u, message |-> None, quote |-> 0,
   reaction |-> << [emoji |-> e, isRemove |-> rm, targetSentTimestamp |-> t] >>]

TextMessage(u, txt, q) ==
  [sender_uuid |-> u, message |-> txt, quote |-> q, reaction |-> << >>]

\* A reaction names a check-in post or some other message of the group (0).
Targets == {0} \cup DOMAIN daily_message_ts

\* A reply in the direct chat of u quotes nothing (0) or a message of that
\* chat: a detail prompt the bot sent to u.
Quotes(u) == {0} \cup { q \in 1 .. Len(delivered) : delivered[q] = Number(u) }

\* A member reacts to a message of the group chat, or removes a reaction.
\* Removals and reactions to other messages are tried with one emoji.
GroupReaction ==
  \E u \in Humans, e \in ReactEmojis, rm \in BOOLEAN, t \in Targets :
     /\ (rm \/ t = 0) => e = "checkmark"
     /\ message_callback(CHAT_ID, ReactionMessage(u, e, rm, t))

\* A member writes in the group chat.
GroupText ==
  \E u \in Humans, txt \in Texts :
     message_callback(CHAT_ID, TextMessage(u, txt, 0))

\* A member writes to the bot directly; the text may quote an earlier message.
DirectText ==
  \E u \in Humans, txt \in Texts :
     \E q \in Quotes(u) : message_callback(Number(u), TextMessage(u, txt, q))

\* A member reacts to the last message of the direct chat with the bot.
DirectReaction ==
  \E u \in Humans :
     message_callback(Number(u), ReactionMessage(u, "checkmark", FALSE, nextTs - 1))

\* A member reacts in the group chat with an emoji of the check-in post or
\* with another one, to a check-in post or to another message.
AnyEmojis == {"checkmark", "stopwatch", "smile"}

AnyReaction ==
  \E u \in Humans, e \in AnyEmojis, t \in Targets :
     message_callback(CHAT_ID, ReactionMessage(u, e, FALSE, t))

\* A member reacts to a check-in post with an emoji that asks for a detail;
\* the handler runs up to its wait for the transport.
DetailEmojis == {"stopwatch", "calendar"}

ReactionSend ==
  \E u \in Humans, e \in DetailEmojis, t \in DOMAIN daily_message_ts :
     react_callback_send(ReactionMessage(u, e, FALSE, t))

\* The transport answers the sends in any order.
ReactionResume == \E h \in suspended : react_callback_resume(h)

\* Another connection takes the write lock of the database, or gives it up.
StoreLock ==
  /\ db_locked' = ~db_locked
  /\ UNCHANGED << today, delivered, daily_message_ts, update_status_ts, responses,
                  leave, tdy, holidays, sent, suspended, sched >>

\* The reminder job runs while the transport may raise for some recipients.
ReminderSweep ==
  \E raising \in SUBSET { GroupMembers[i].uuid : i \in 1 .. Len(GroupMembers) } :
     post_reminder_callback_raising(raising) /\ UNCHANGED crons

\* -------------------------------------------------------- prefix callbacks
\* parts is message.message.split(): parts[1] is the command word.
leave_callback(context, sender_uuid, parts) ==
  LET sender_is_admin == is_admin(sender_uuid)
      admin_form == sender_is_admin /\ Len(parts) >= 4
      self_form == ~admin_form /\ Len(parts) >= 3
      target_user_id == IF admin_form THEN parts[3] ELSE sender_uuid
      action == parts[2]
      start_date_str == IF admin_form THEN parts[4] ELSE parts[3]
      end_date_str ==
        IF admin_form
          THEN (IF Len(parts) > 4 THEN parts[5] ELSE start_date_str)
          ELSE (IF Len(parts) > 3 THEN parts[4] ELSE start_date_str)
  IN  /\ IF context # Number(sender_uuid)
           THEN sent' = << >> /\ UNCHANGED leave
         ELSE IF ~admin_form /\ ~self_form
           THEN /\ sent' = << [to |-> sender_uuid, what |-> "usage"] >>
                /\ UNCHANGED leave
         ELSE IF ~KnownRecipient(target_user_id)
           THEN sent' = << >> /\ UNCHANGED leave
         ELSE IF ~(IsIsoFormat(start_date_str) /\ IsIsoFormat(end_date_str))
           THEN /\ sent' = << [to |-> sender_uuid, what |-> "invalid date"] >>
                /\ UNCHANGED leave
         ELSE IF db_locked /\ action \in {"add", "remove"}
           \* cursor.execute raises out of the handler
           THEN sent' = << >> /\ UNCHANGED leave
         ELSE IF action = "add"
           THEN /\ Len(leave) < MaxLeave
                /\ leave' = Insert(leave,
                                   [user_id |-> target_user_id,
                                    start_date |-> start_date_str,
                                    end_date |-> end_date_str])
                /\ sent' = << [to |-> sender_uuid, what |-> "leave added"] >>
         ELSE IF action = "remove"
           THEN /\ leave' = SelectSeq(leave,
                                      LAMBDA r : ~(/\ r.user_id = target_user_id
                                                   /\ r.start_date = start_date_str))
                /\ sent' = << [to |-> sender_uuid, what |-> "leave removed"] >>
         ELSE /\ sent' = << [to |-> sender_uuid, what |-> "unknown action"] >>
              /\ UNCHANGED leave
      /\ UNCHANGED << today, delivered, daily_message_ts, update_status_ts,
                      responses, tdy, holidays, db_locked, suspended, sched >>

\* parts is message.message.split(maxsplit=3)
tdy_callback(context, sender_uuid, parts) ==
  /\ IF context # Number(sender_uuid)
       THEN sent' = << >> /\ UNCHANGED tdy
     ELSE IF Len(parts) < 4
       THEN /\ sent' = << [to |-> Number(sender_uuid), what |-> "usage"] >>
            /\ UNCHANGED tdy
     ELSE IF ~(IsIsoFormat(parts[2]) /\ IsIsoFormat(parts[3]))
       THEN /\ sent' = << [to |-> Number(sender_uuid), what |-> "invalid date"] >>
            /\ UNCHANGED tdy
     ELSE IF fromisoformat(parts[2]) > fromisoformat(parts[3])
       THEN /\ sent' = << [to |-> Number(sender_uuid), what |-> "start after end"] >>
            /\ UNCHANGED tdy
     ELSE IF db_locked
       \* cursor.execute raises out of the handler
       THEN sent' = << >> /\ UNCHANGED tdy
     ELSE /\ Len(tdy) < MaxTdy
          /\ tdy' = Insert(tdy, [user_id |-> sender_uuid,
                                 start_date |-> parts[2], end_date |-> parts[3],
                                 description |-> parts[4]])
          /\ sent' = << [to |-> Number(sender_uuid), what |-> "tdy logged"] >>
  /\ UNCHANGED << today, delivered, daily_message_ts, update_status_ts, responses,
                  leave, holidays, db_locked, suspended, sched >>

\* parts is message.message.split(maxsplit=3)
add_holiday_callback(context, sender_uuid, parts) ==
  LET action == parts[2]
      holiday_date_str == parts[3]
      description == IF Len(parts) > 3 THEN parts[4] ELSE ""
  IN  /\ IF ~is_admin(sender_uuid) \/ context # Number(sender_uuid)
           THEN sent' = << >> /\ UNCHANGED holidays
         ELSE IF Len(parts) < 3
           THEN /\ sent' = << [to |-> sender_uuid, what |-> "usage"] >>
                /\ UNCHANGED holidays
         ELSE IF ~IsIsoFormat(holiday_date_str)
           THEN /\ sent' = << [to |-> sender_uuid, what |-> "invalid date"] >>
                /\ UNCHANGED holidays
         ELSE IF action = "add"
           THEN IF ~Truthy(description)
                  THEN /\ sent' = << [to |-> sender_uuid, what |-> "description required"] >>
                       /\ UNCHANGED holidays
                ELSE IF db_locked
                  \* cursor.execute raises out of the handler
                  THEN sent' = << >> /\ UNCHANGED holidays
                  ELSE /\ holidays' = Put(holidays, holiday_date_str, description)
                       /\ sent' = << [to |-> sender_uuid, what |-> "holiday added"] >>
         ELSE IF action = "remove"
           THEN IF db_locked
                  THEN sent' = << >> /\ UNCHANGED holidays
                  ELSE /\ holidays' = Pop(holidays, holiday_date_str)
                       /\ sent' = << [to |-> sender_uuid, what |-> "holiday removed"] >>
         ELSE /\ sent' = << [to |-> sender_uuid, what |-> "unknown action"] >>
              /\ UNCHANGED holidays
      /\ UNCHANGED << today, delivered, daily_message_ts, update_status_ts,
                      responses, leave, tdy, db_locked, suspended, sched >>

\* parts is message.message.split()
update_config_callback(context, sender_uuid, parts) ==
  /\ IF ~is_admin(sender_uuid) \/ context # Number(sender_uuid)
       THEN sent' = << >> /\ UNCHANGED << config, crons >>
     ELSE IF Len(parts) = 1
       THEN /\ sent' = << [to |-> sender_uuid, what |-> "configuration",
                            configs |-> config] >>
            /\ UNCHANGED << config, crons >>
     ELSE IF Len(parts) = 3
       THEN IF db_locked
              \* cursor.execute raises out of the handler
              THEN sent' = << >> /\ UNCHANGED << config, crons >>
              ELSE /\ Len(crons) + Len(JobNames) <= MaxCrons
                   /\ config' = Put(config, parts[2], parts[3])
                   /\ sent' = << [to |-> sender_uuid, what |-> "configuration updated",
                                  key |-> parts[2], value |-> parts[3]] >>
                   \* await generate_cron_callbacks(signal)
                   /\ crons' = generate_cron_callbacks(
                                  crons, Put(config, parts[2], parts[3]), now)
     ELSE /\ sent' = << [to |-> sender_uuid, what |-> "usage"] >>
          /\ UNCHANGED << config, crons >>
  /\ UNCHANGED << today, delivered, daily_message_ts, update_status_ts, responses,
                  leave, tdy, holidays, db_locked, suspended, hour, host_utc_offset >>

\* A prefix callback returns False at once: not an admin, or not a DM.
NotForThisSender ==
  /\ sent' = << >>
  /\ UNCHANGED << today, delivered, daily_message_ts, update_status_ts, responses,
                  leave, tdy, holidays, db_locked, suspended, config, hour,
                  host_utc_offset >>

\* /post_checkin, /post_reminder, /post_summary
test_post_daily_checkin_callback(context, sender_uuid) ==
  /\ IF ~is_admin(sender_uuid) \/ context # Number(sender_uuid)
       THEN NotForThisSender
       ELSE post_daily_checkin_callback
  /\ UNCHANGED crons

test_post_reminder_callback(context, sender_uuid) ==
  /\ IF ~is_admin(sender_uuid) \/ context # Number(sender_uuid)
       THEN NotForThisSender
       ELSE post_reminder_callback
  /\ UNCHANGED crons

test_post_daily_summary_callback(context, sender_uuid) ==
  /\ IF ~is_admin(sender_uuid) \/ context # Number(sender_uuid)
       THEN NotForThisSender
       ELSE post_daily_summary_callback
  /\ UNCHANGED crons

\* ------------------------------------------------------------------ timers
\* The callback a timer is bound to.
RunHook(hook) ==
  CASE hook = "post_daily_checkin_callback" -> post_daily_checkin_callback
    [] hook = "post_reminder_callback" -> post_reminder_callback
    [] hook = "post_daily_summary_callback" -> post_daily_summary_callback

\* A timer is due when the clock has reached its instant.
Due(i) == crons[i].armed /\ crons[i].at <= now

\* signal._cron_repeat, run by the event loop for the due timer i: the
\* callback runs and the timer is armed again for the next instant of its
\* schedule.
cron_repeat(i) ==
  /\ Due(i)
  /\ Len(crons) < MaxCrons
  /\ crons' = Append([crons EXCEPT ![i] = Cancelled],
                     [crons[i] EXCEPT
                        !.at = schedule_next(crons[i].cron, crons[i].at + 1)])
  /\ RunHook(crons[i].hook)

CronFire == \E i \in 1 .. Len(crons) : cron_repeat(i)

\* The clock moves on by an hour; a due timer runs first.
ClockTick ==
  /\ \A i \in 1 .. Len(crons) : ~Due(i)
  /\ IF hour < Len(ClockTexts) - 1
       THEN hour' = hour + 1 /\ UNCHANGED today
       ELSE today < MaxDay /\ hour' = 0 /\ today' = today + 1
  /\ sent' = << >>
  /\ UNCHANGED << delivered, daily_message_ts, update_status_ts, responses, leave,
                  tdy, holidays, db_locked, suspended, config, crons, host_utc_offset >>

\* The commands the handlers are exercised with: << sender, parts >>.
Yesterday == strftime(2)
Today == strftime(3)
Tomorrow == strftime(4)

LeaveCommands ==
  { << "u2", << "/leave", "add", Yesterday, Today >> >>,
    << "u2", << "/leave", "add", Today, Tomorrow >> >>,
    << "u2", << "/leave", "add", Tomorrow >> >>,
    << "u2", << "/leave", "add", "soon" >> >>,
    << "u2", << "/leave", "remove", Today >> >>,
    << "u1", << "/leave", "add", "+2", Today >> >>,
    << "u1", << "/leave", "add", Today, Tomorrow >> >>,
    << "u1", << "/leave", "remove", "+2", Today >> >> }

TdyCommands ==
  { << "u2", << "/tdy", Yesterday, Today, "TAD" >> >>,
    << "u2", << "/tdy", Today, Tomorrow, "School" >> >>,
    << "u2", << "/tdy", Tomorrow, Tomorrow, "TAD" >> >>,
    << "u2", << "/tdy", Tomorrow, Today, "TAD" >> >> }

HolidayCommands ==
  { << "u1", << "/holiday", "add", Today, "Fest" >> >>,
    << "u1", << "/holiday", "remove", Today >> >>,
    << "u2", << "/holiday", "add", Today, "Fest" >> >> }

\* The holiday entries of an admin: a working day and a Saturday in the
\* extended date format, and the working day in the basic format.
CalendarCommands ==
  { << "u1", << "/holiday", "add", Today, "Fest" >> >>,
    << "u1", << "/holiday", "add", "20241031", "Fest" >> >>,
    << "u1", << "/holiday", "add", "2024-11-02", "Fair" >> >>,
    << "u1", << "/holiday", "remove", Today >> >>,
    << "u1", << "/holiday", "remove", "20241031" >> >>,
    << "u1", << "/holiday", "add", "31.10.2024", "Fest" >> >> }

ConfigCommands ==
  { << "u1", << "/config", "checkin_time", "07:00" >> >>,
    << "u1", << "/config", "reminder_time", "8h30" >> >>,
    << "u1", << "/config", "reminder_time", "09:00" >> >>,
    << "u1", << "/config", "timezone", "Mars/Olympus" >> >>,
    << "u1", << "/config" >> >>,
    << "u1", << "/config", "checkin_time" >> >>,
    << "u2", << "/config", "checkin_time", "07:00" >> >> }

ConfigCommand ==
  \E c \in ConfigCommands :
     \E ctx \in {Number(c[1]), CHAT_ID} : update_config_callback(ctx, c[1], c[2])

\* /post_checkin, /post_reminder and /post_summary, from an admin or not, in
\* a DM or in the group.
ManualCheckin ==
  \E u \in Humans :
     \E ctx \in {Number(u), CHAT_ID} : test_post_daily_checkin_callback(ctx, u)

ManualReminder ==
  \E u \in Humans :
     \E ctx \in {Number(u), CHAT_ID} : test_post_reminder_callback(ctx, u)

ManualSummary ==
  \E u \in Humans :
     \E ctx \in {Number(u), CHAT_ID} : test_post_daily_summary_callback(ctx, u)

LeaveCommand ==
  \E c \in LeaveCommands :
     \E ctx \in {Number(c[1]), CHAT_ID} : leave_callback(ctx, c[1], c[2])

TdyCommand ==
  \E c \in TdyCommands :
     \E ctx \in {Number(c[1]), CHAT_ID} : tdy_callback(ctx, c[1], c[2])

HolidayCommand ==
  \E c \in HolidayCommands :
     \E ctx \in {Number(c[1]), CHAT_ID} : add_holiday_callback(ctx, c[1], c[2])

CalendarCommand ==
  \E c \in CalendarCommands : add_holiday_callback(Number(c[1]), c[1], c[2])

\* The cron trigger of the day: the check-in is posted once.
DailyPost ==
  /\ daily_message_ts = EmptyDict
  /\ post_daily_checkin_callback
  /\ UNCHANGED crons

\* The callbacks run at some time of the day, by their timer or by the
\* command of an admin.
PostCheckin == post_daily_checkin_callback /\ UNCHANGED crons
PostReminder == post_reminder_callback /\ UNCHANGED crons
PostSummary == post_daily_summary_callback /\ UNCHANGED crons

\* A member checks in with the no-detail emoji on a check-in post.
CheckIn ==
  \E u \in Humans, t \in DOMAIN daily_message_ts :
     message_callback(CHAT_ID, ReactionMessage(u, "checkmark", FALSE, t))

\* ---------------------------------------------------------- specifications
\* The check-in correlation: the daily post, reactions, follow-up replies.
Next ==
  \/ Tick
  \/ PostCheckin
  \/ GroupReaction
  \/ GroupText
  \/ DirectText
  \/ DirectReaction

Spec == Init /\ [][Next]_vars

\* The status resolution of one day: absences and holidays are entered,
\* members check in, the reminder and the summary run.
NextAbsence ==
  \/ DailyPost
  \/ CheckIn
  \/ LeaveCommand
  \/ TdyCommand
  \/ HolidayCommand
  \/ PostReminder
  \/ PostSummary

SpecAbsence == Init /\ [][NextAbsence]_vars

\* Faults of one day: reactions with any emoji to any message, follow-up
\* replies, the database locked by another connection, sends that raise
\* during the reminder sweep.
NextFaults ==
  \/ DailyPost
  \/ AnyReaction
  \/ DirectText
  \/ StoreLock
  \/ ReminderSweep

SpecFaults == Init /\ [][NextFaults]_vars

\* The scheduler: the clock runs from 05:00 of the start day, a Thursday or
\* a Saturday, on a host in UTC or an hour east of it; timers fire, an admin
\* rewrites the configuration, enters a holiday and runs the jobs by hand.
InitSchedule == InitOn({3, 5}, {0, 1})

NextSchedule ==
  \/ ClockTick
  \/ CronFire
  \/ ConfigCommand
  \/ HolidayCommand
  \/ ManualCheckin
  \/ ManualReminder
  \/ ManualSummary

SpecSchedule == InitSchedule /\ [][NextSchedule]_vars

\* The working calendar: from a Thursday or a Saturday, an admin enters and
\* removes holidays, days pass and the check-in job runs.
InitCalendar == InitOn({3, 5}, {0})

NextCalendar ==
  \/ CalendarCommand
  \/ Tick
  \/ PostCheckin

SpecCalendar == InitCalendar /\ [][NextCalendar]_vars

\* The chats of one day: the check-in is posted, members react and write in
\* the group chat and in their direct chats with the bot.
NextChat ==
  \/ DailyPost
  \/ GroupReaction
  \/ GroupText
  \/ DirectText
  \/ DirectReaction

SpecChat == Init /\ [][NextChat]_vars

\* Interleaved handlers: the event loop runs the handler of the next event
\* while the handler of a reaction waits for the transport.
NextInterleaved ==
  \/ DailyPost
  \/ ReactionSend
  \/ ReactionResume
  \/ DirectText

SpecInterleaved == Init /\ [][NextInterleaved]_vars

\* ------------------------------------------------------------------ claims
\* The follow-up of user u is pending.
Pending(u) == u \in DOMAIN update_status_ts

\* The rows of responses for (user, date string).
RowsOf(u, ds) ==
  { i \in 1 .. Len(responses) :
      responses[i].user_id = u /\ responses[i].response_date = ds }

\* C1: in every reachable state the response store holds at most one
\* Response per (user, date): a later write for the same key replaces the
\* earlier one instead of adding a second row.
C1_OneResponsePerUserDate ==
  \A i, j \in 1 .. Len(responses) :
     (/\ responses[i].user_id = responses[j].user_id
      /\ responses[i].response_date = responses[j].response_date) => i = j

\* C2: a direct message from a user who has a PendingFollowUp, and which
\* does not quote the timestamp of the detail prompt, writes no Response and
\* leaves the PendingFollowUp in place.
C2_UncorrelatedReplyNotConsumed ==
  [][ \A u \in Humans, txt \in Texts, q \in 0 .. Len(delivered) :
        ( /\ Pending(u)
          /\ q # update_status_ts[u].timestamp
          /\ message_callback(Number(u), TextMessage(u, txt, q)) )
        => ( responses' = responses /\ update_status_ts' = update_status_ts ) ]_vars

\* The timestamps of detail prompts sent to u before the pending one.
StaleTokens(u) ==
  { q \in 1 .. Len(delivered) :
      delivered[q] = Number(u) /\ q < update_status_ts[u].timestamp }

\* C3: a second detail-required reaction of a user who already has a
\* PendingFollowUp leaves exactly one PendingFollowUp for that user, that of
\* the second reaction (its token, status and date); and a reply that quotes
\* the stale token of the earlier prompt finalizes no Response.
C3_OverwriteAndStaleToken ==
  [][ /\ \A u \in Humans, e \in ReactEmojis, t \in DOMAIN daily_message_ts :
           ( /\ Pending(u)
             /\ e \in DOMAIN STATUS_MAP
             /\ STATUS_MAP[e].prompt # None
             /\ message_callback(CHAT_ID, ReactionMessage(u, e, FALSE, t)) )
           => ( /\ DOMAIN update_status_ts' = DOMAIN update_status_ts
                /\ update_status_ts'[u] =
                     [timestamp |-> Len(delivered'), status |-> STATUS_MAP[e].text,
                      response_date |-> daily_message_ts[t]]
                /\ delivered'[Len(delivered')] = Number(u) )
      /\ \A u \in Humans, txt \in Texts, q \in 0 .. Len(delivered) :
           ( /\ Pending(u)
             /\ q \in StaleTokens(u)
             /\ message_callback(Number(u), TextMessage(u, txt, q)) )
           => responses' = responses ]_vars

\* C4: whenever a reaction of user u with a recognized symbol is routed,
\* detail-required or not, the PendingFollowUp an earlier reaction of u
\* opened is cancelled.
C4_LastReactionWins ==
  [][ \A u \in Humans, e \in ReactEmojis, t \in DOMAIN daily_message_ts :
        ( /\ Pending(u)
          /\ e \in DOMAIN STATUS_MAP
          /\ message_callback(CHAT_ID, ReactionMessage(u, e, FALSE, t)) )
        => ( \/ ~Pending(u)'
             \/ update_status_ts'[u].timestamp # update_status_ts[u].timestamp ) ]_vars

\* C5: a reaction with a detail-required symbol to an outstanding prompt
\* for date d opens exactly one PendingFollowUp for the user (the status
\* chosen, the date d, the timestamp of the detail prompt) and writes no
\* Response; the user's reply that quotes the detail prompt appends the
\* Response (user, d, the status chosen at reaction time, detail = the reply
\* text) and removes the PendingFollowUp.
C5_DetailReactionThenReply ==
  [][ /\ \A u \in Humans, e \in ReactEmojis, t \in DOMAIN daily_message_ts :
           ( /\ e \in DOMAIN STATUS_MAP
             /\ STATUS_MAP[e].prompt # None
             /\ message_callback(CHAT_ID, ReactionMessage(u, e, FALSE, t)) )
           => ( /\ responses' = responses
                /\ DOMAIN update_status_ts' = DOMAIN update_status_ts \cup {u}
                /\ update_status_ts'[u] =
                     [timestamp |-> Len(delivered'), status |-> STATUS_MAP[e].text,
                      response_date |-> daily_message_ts[t]]
                /\ \A v \in DOMAIN update_status_ts \ {u} :
                      update_status_ts'[v] = update_status_ts[v] )
      /\ \A u \in Humans, txt \in Texts, q \in 0 .. Len(delivered) :
           ( /\ Pending(u)
             /\ q = update_status_ts[u].timestamp
             /\ message_callback(Number(u), TextMessage(u, txt, q)) )
           => ( /\ Len(responses') = Len(responses) + 1
                /\ SubSeq(responses', 1, Len(responses)) = responses
                /\ LET r == responses'[Len(responses')]
                   IN  /\ r.user_id = u
                       /\ r.response_date = update_status_ts[u].response_date
                       /\ r.response_text = update_status_ts[u].status
                       /\ r.details = txt
                /\ ~Pending(u)'
                /\ \A v \in DOMAIN update_status_ts \ {u} :
                      Pending(v)' /\ update_status_ts'[v] = update_status_ts[v] ) ]_vars

\* A follow-up reply of u1 has just been recorded with its text as detail.
C5_Witness ==
  /\ sent = << [to |-> "u1", what |-> "updated", status |-> "Appointment",
                details |-> "9am"] >>
  /\ ~Pending("u1")
  /\ \E i \in 1 .. Len(responses) :
        /\ responses[i].user_id = "u1"
        /\ responses[i].response_text = "Appointment"
        /\ responses[i].details = "9am"

\* C6: a reaction with a symbol whose catalog entry requires no detail, to
\* an outstanding prompt for date d, appends the Response (user, d, status,
\* no detail) at once and adds or replaces no entry of the pending
\* follow-up map.
C6_NoDetailReaction ==
  [][ \A u \in Humans, e \in ReactEmojis, t \in DOMAIN daily_message_ts :
        ( /\ e \in DOMAIN STATUS_MAP
          /\ STATUS_MAP[e].prompt = None
          /\ message_callback(CHAT_ID, ReactionMessage(u, e, FALSE, t)) )
        => ( /\ Len(responses') = Len(responses) + 1
             /\ SubSeq(responses', 1, Len(responses)) = responses
             /\ LET r == responses'[Len(responses')]
                IN  /\ r.user_id = u
                    /\ r.response_date = daily_message_ts[t]
                    /\ r.response_text = STATUS_MAP[e].text
                    /\ r.details = None
             /\ \A v \in DOMAIN update_status_ts' :
                   Pending(v) /\ update_status_ts'[v] = update_status_ts[v] ) ]_vars

\* u2 has just checked in with the check mark while u1's follow-up is
\* pending: the row is there and u2 has no follow-up.
C6_Witness ==
  /\ sent = << [to |-> "u2", what |-> "thanks", status |-> "In at Normal Time",
                date |-> strftime(today)] >>
  /\ ~Pending("u2")
  /\ Pending("u1")
  /\ responses[Len(responses)].user_id = "u2"
  /\ responses[Len(responses)].details = None

\* The record covers the date, both ends included.
Covers(row, d) ==
  fromisoformat(row.start_date) <= d /\ d <= fromisoformat(row.end_date)

TdyCovering(u, d) == { i \in 1 .. Len(tdy) : tdy[i].user_id = u /\ Covers(tdy[i], d) }
LeaveCovering(u, d) == { i \in 1 .. Len(leave) : leave[i].user_id = u /\ Covers(leave[i], d) }

AllUuids == { GroupMembers[i].uuid : i \in 1 .. Len(GroupMembers) }
ClaimDays == { d \in Days : today - 1 <= d /\ d <= today + 1 }

\* The summary the last handler posted to the group, if it posted one.
SummaryPosted == sent # << >> /\ sent[1].what = "summary"

\* C7: for every user u and date d that a TemporaryDuty record of u covers
\* (start <= d <= end), the resolved status of (u, d) is the description of
\* that record (of the first such record when several cover d), whether or
\* not a Leave record or a Response also exists for (u, d); the summary
\* posted for today carries that line.
C7_TdyDominates ==
  /\ \A u \in AllUuids, d \in ClaimDays :
        TdyCovering(u, d) # {} =>
          status_line(u, d) =
            [kind |-> "plane",
             text |-> tdy[CHOOSE i \in TdyCovering(u, d) :
                            \A j \in TdyCovering(u, d) : i <= j].description,
             details_text |-> ""]
  /\ SummaryPosted =>
        \A k \in 1 .. Len(sent[1].lines) :
           TdyCovering(SummaryUsers[k], today) # {} =>
             /\ sent[1].lines[k].line.kind = "plane"
             /\ \E i \in TdyCovering(SummaryUsers[k], today) :
                   sent[1].lines[k].line.text = tdy[i].description

\* The summary lists u2 on TDY although u2 is also on leave and has checked in.
C7_Witness ==
  /\ SummaryPosted
  /\ TdyCovering("u2", today) # {}
  /\ LeaveCovering("u2", today) # {}
  /\ RowsOf("u2", strftime(today)) # {}
  /\ sent[1].lines[2].user_name = "u2"
  /\ sent[1].lines[2].line.kind = "plane"

LastResponse == responses[Len(responses)]

\* C9: round trip.  Whenever a handler records a Response (u, d, status,
\* detail) and no absence record covers (u, d), resolving (u, d) right after
\* returns that status and that detail (no detail when the detail is None),
\* also when earlier Responses for (u, d) are in the store.
C9_RoundTrip ==
  [][ Len(responses') = Len(responses) + 1 =>
        \A u \in AllUuids, d \in Days :
           ( /\ LastResponse'.user_id = u
             /\ LastResponse'.response_date = strftime(d)
             /\ LeaveCovering(u, d) = {}
             /\ TdyCovering(u, d) = {} )
           => status_line(u, d)' =
                [kind |-> "response", text |-> LastResponse'.response_text,
                 details_text |-> IF LastResponse'.details = None
                                    THEN "" ELSE LastResponse'.details] ]_vars

\* u1 has two Responses with different statuses for today and the later
\* one, with its detail, is what u1 resolves to.
C9_Witness ==
  /\ Cardinality(RowsOf("u1", strftime(today))) = 2
  /\ responses[1].response_text = "In at Normal Time"
  /\ responses[2].response_text = "In Late"
  /\ responses[2].details = "9am"
  /\ status_line("u1", today) =
       [kind |-> "response", text |-> "In Late", details_text |-> "9am"]

\* C10: on a workday the reminder sweep sends a reminder to a group member
\* if and only if the member has no Response for today, is covered today by
\* no absence record (Leave or TemporaryDuty) and is not the bot itself.
C10_ReminderIff ==
  [][ (post_reminder_callback /\ is_workday(today)) =>
        \A i \in 1 .. Len(GroupMembers) :
           LET m == GroupMembers[i]
           IN  (\E k \in 1 .. Len(sent') :
                   sent'[k] = [to |-> m.uuid, what |-> "reminder"])
               <=> ( /\ RowsOf(m.uuid, strftime(today)) = {}
                     /\ LeaveCovering(m.uuid, today) = {}
                     /\ TdyCovering(m.uuid, today) = {}
                     /\ m.number # MUSTERBOT_ID ) ]_vars

\* ------------------------------------------------------- claims: scheduler
\* The operation sent nothing and changed nothing of the check-in state.
NoOp ==
  /\ sent' = << >>
  /\ UNCHANGED << today, delivered, daily_message_ts, update_status_ts, responses,
                  leave, tdy, holidays, config >>

\* C12: on a date that is not a workday, postDailyPrompt, sendReminders and
\* buildAndPostSummary each send no message and change no state, whether
\* their timer runs them or an admin does with /post_checkin, /post_reminder
\* or /post_summary.
C12_NonWorkdayNoOp ==
  [][ ~is_workday(today) =>
        /\ post_daily_checkin_callback => NoOp
        /\ post_reminder_callback => NoOp
        /\ post_daily_summary_callback => NoOp
        /\ \A i \in 1 .. Len(crons) : cron_repeat(i) => NoOp
        /\ \A u \in Humans, ctx \in {"+1", "+2", CHAT_ID} :
              ( \/ test_post_daily_checkin_callback(ctx, u)
                \/ test_post_reminder_callback(ctx, u)
                \/ test_post_daily_summary_callback(ctx, u) ) => NoOp ]_vars

\* Today is a holiday and the check-in timer armed at startup has fired:
\* it is armed again for the next day and no prompt was registered.
C12_Witness ==
  /\ ~is_workday(today)
  /\ today = 3
  /\ Len(crons) = 4
  /\ ~crons[1].armed
  /\ crons[2].armed
  /\ crons[4].hook = "post_daily_checkin_callback"
  /\ crons[4].at = Instant(4, 6)
  /\ daily_message_ts = EmptyDict
  /\ sent = << >>

\* The handles that are armed.
Armed(handles) == { i \in 1 .. Len(handles) : handles[i].armed }

\* The armed handles bound to the callback of the job.
ArmedFor(handles, job_name) ==
  { i \in Armed(handles) : handles[i].hook = JobHook(job_name) }

Jobs == { JobNames[j] : j \in 1 .. Len(JobNames) }

\* An admin writes a configuration value in a DM: the schedule is recomputed.
Recomputation(c) ==
  /\ Len(c[2]) = 3
  /\ is_admin(c[1])
  /\ ~db_locked
  /\ update_config_callback(Number(c[1]), c[1], c[2])

\* C13: after every schedule recomputation no trigger armed before the
\* recomputation is still armed, and each job name (checkin, reminder,
\* summary) has exactly one armed trigger.
C13_NoStaleOneEach ==
  [][ \A c \in ConfigCommands :
        Recomputation(c) =>
          /\ \A i \in 1 .. Len(crons) : ~crons'[i].armed
          /\ \A job \in Jobs : Cardinality(ArmedFor(crons', job)) = 1 ]_vars

\* The next-firing instants of the armed triggers of a job, in creation order.
FiringInstants(handles, job_name) ==
  LET mine == SelectSeq(handles, LAMBDA h : h.armed /\ h.hook = JobHook(job_name))
  IN  [ i \in 1 .. Len(mine) |-> mine[i].at ]

\* C14: recomputing the schedule once more after a recomputation, with the
\* ScheduleConfig unchanged, yields for each job name the same next-firing
\* instant and the same number of armed triggers as the one recomputation.
C14_RecomputeIdempotent ==
  [][ \A c \in ConfigCommands :
        Recomputation(c) =>
          \A job \in Jobs :
             FiringInstants(generate_cron_callbacks(crons', config', now'), job)
               = FiringInstants(crons', job) ]_vars

\* The admin has written reminder_time 8h30 and then 09:00 at 05:00 of the
\* start day: the second recomputation has armed the three jobs at their
\* configured hours of that day, after the one timer the first had armed.
C14_Witness ==
  /\ sent = << [to |-> "u1", what |-> "configuration updated",
                key |-> "reminder_time", value |-> "09:00"] >>
  /\ config = SeedConfig
  /\ today = 3 /\ hour = 5
  /\ Len(crons) = 7
  /\ Armed(crons) = {5, 6, 7}
  /\ \A job \in Jobs :
        FiringInstants(crons, job) = << Instant(3, local_hour(ConfigGet(config, job))) >>

\* C15: every job's trigger is computed from the stored ScheduleConfig
\* before any trigger can fire: no job ever fires at a time of day that
\* differs from its configured value.
C15_FiresAtConfiguredTime ==
  [][ \A i \in 1 .. Len(crons) :
        cron_repeat(i) =>
          \A job \in Jobs :
             ( /\ crons[i].hook = JobHook(job)
               /\ IsTimeText(ConfigGet(config, job)) )
             => hour = local_hour(ConfigGet(config, job)) ]_vars

\* The zone identifiers the zone database knows, among those written.
RecognizedZones == {"UTC"}

\* The hour of the day, in UTC, of an instant of the host's clock.
UtcHourOf(t) == (HourOf(t) + Len(ClockTexts) - host_utc_offset) % Len(ClockTexts)

\* C19: when the configured time zone is unset or not recognized, the
\* recomputation of the schedule takes UTC for it: it arms a trigger for
\* every job and each fires at the configured local time read in UTC.
C19_UtcFallback ==
  [][ \A c \in ConfigCommands :
        ( /\ Recomputation(c)
          /\ ( \/ "timezone" \notin DOMAIN config'
               \/ config'["timezone"] \notin RecognizedZones )
          /\ \A job \in Jobs : IsTimeText(ConfigGet(config', job)) )
        => \A job \in Jobs :
              /\ ArmedFor(crons', job) # {}
              /\ \A i \in ArmedFor(crons', job) :
                    UtcHourOf(crons'[i].at) = local_hour(ConfigGet(config', job)) ]_vars

\* ---------------------------------------------------------- claims: faults
\* C11: during a reminder sweep a send that fails for one recipient does not
\* abort the sweep: every other member who is due a reminder is sent one.
C11_SweepIsolatesFailure ==
  [][ \A raising \in SUBSET AllUuids :
        ( /\ is_workday(today)
          /\ post_reminder_callback_raising(raising) )
        => \A u \in AllUuids \ raising :
              NeedsReminder(u, today) =>
                \E k \in 1 .. Len(sent') : sent'[k] = [to |-> u, what |-> "reminder"] ]_vars

\* C16: a reaction to an outstanding prompt with a symbol that is not in the
\* Status Catalog sends the reacting user an explanatory message and changes
\* no state: no Response is written and the pending follow-up map, with any
\* entry of that user, stays as it is.
C16_UnknownEmoji ==
  [][ \A u \in Humans, e \in AnyEmojis, t \in DOMAIN daily_message_ts :
        ( /\ e \notin DOMAIN STATUS_MAP
          /\ message_callback(CHAT_ID, ReactionMessage(u, e, FALSE, t)) )
        => ( /\ sent' = << [to |-> u, what |-> "unknown emoji"] >>
             /\ UNCHANGED << responses, update_status_ts, daily_message_ts,
                             delivered >> ) ]_vars

\* u1 has a follow-up pending and has just reacted with an emoji the catalog
\* does not hold: the follow-up is still pending.
C16_Witness ==
  /\ sent = << [to |-> "u1", what |-> "unknown emoji"] >>
  /\ Pending("u1")
  /\ update_status_ts["u1"].status = "In Late"
  /\ responses # << >>

\* The event was ignored: nothing written, nothing sent.
SilentlyIgnored ==
  /\ sent' = << >>
  /\ UNCHANGED << responses, daily_message_ts, update_status_ts >>

\* C17: a reaction whose target message is not a registered prompt, and a
\* direct message from a user who has no PendingFollowUp, are silently
\* ignored: no Response is written, the prompt map and the pending follow-up
\* map are unchanged and no message is sent to the user.
C17_NoCorrelationIgnored ==
  [][ /\ \A u \in Humans, e \in AnyEmojis, t \in 0 .. Len(delivered) :
           \A ctx \in {CHAT_ID, Number(u)} :
              ( /\ t \notin DOMAIN daily_message_ts
                /\ message_callback(ctx, ReactionMessage(u, e, FALSE, t)) )
              => SilentlyIgnored
      /\ \A u \in Humans, txt \in Texts, q \in 0 .. Len(delivered) :
           ( /\ ~Pending(u)
             /\ message_callback(Number(u), TextMessage(u, txt, q)) )
           => SilentlyIgnored ]_vars

\* The user is told that the status was not recorded, and is not thanked.
FailureAcknowledged(u) ==
  /\ \E k \in 1 .. Len(sent') :
        sent'[k].to \in {u, Number(u)} /\ sent'[k].what = "could not record"
  /\ \A k \in 1 .. Len(sent') : sent'[k].what \notin {"thanks", "updated"}

\* C18: when writing a Response fails during reaction routing or follow-up
\* finalization, the error is caught inside the handler (the handler ends,
\* no Response is written), and the user is sent a generic "could not
\* record your status" acknowledgment and no success acknowledgment.
C18_WriteFailureAcknowledged ==
  [][ /\ \A u \in Humans, e \in AnyEmojis, t \in DOMAIN daily_message_ts :
           ( /\ db_locked
             /\ e \in DOMAIN STATUS_MAP
             /\ STATUS_MAP[e].prompt = None
             /\ message_callback(CHAT_ID, ReactionMessage(u, e, FALSE, t)) )
           => ( responses' = responses /\ FailureAcknowledged(u) )
      /\ \A u \in Humans, txt \in Texts, q \in 0 .. Len(delivered) :
           ( /\ db_locked
             /\ Pending(u)
             /\ message_callback(Number(u), TextMessage(u, txt, q)) )
           => ( responses' = responses /\ FailureAcknowledged(u) ) ]_vars

\* The display texts of the Status Catalog, and those of the entries that
\* require a detail prompt.
CatalogTexts == { STATUS_MAP[e].text : e \in DOMAIN STATUS_MAP }
DetailTexts ==
  { STATUS_MAP[e].text : e \in { x \in DOMAIN STATUS_MAP : STATUS_MAP[x].prompt # None } }

\* C20: in every reachable state the status of every stored Response and of
\* every PendingFollowUp is the display text of an entry of the Status
\* Catalog, and a PendingFollowUp's status is one whose entry requires a
\* detail prompt.
C20_StatusFromCatalog ==
  /\ \A i \in 1 .. Len(responses) : responses[i].response_text \in CatalogTexts
  /\ \A u \in DOMAIN update_status_ts :
        /\ update_status_ts[u].status \in CatalogTexts
        /\ update_status_ts[u].status \in DetailTexts

\* A Response recorded at once, a Response recorded through its follow-up
\* and a follow-up still pending are in the state together.
C20_Witness ==
  /\ Len(responses) = 2
  /\ responses[1].details = None
  /\ responses[2].details = "9am"
  /\ responses[2].response_text = "In Late"
  /\ Pending("u2")

\* -------------------------------------------------------- claims: calendar
\* The dates that have a row in the holidays table.
HolidayDates == {fromisoformat(k) : k \in DOMAIN holidays}

\* C21: is_workday(d) is false for every Saturday and Sunday, false for every
\* date that has a row in the holidays table whatever its weekday, and true
\* for every other date.
C21_WorkdayCalendar ==
  \A d \in Days :
     is_workday(d) = (weekday(d) < 5 /\ d \notin HolidayDates)

\* ---------------------------------------------------- claims: correlation
\* C22: the entries of daily_message_ts are never removed or changed, and a
\* reaction to the prompt posted for date d is recorded for d whatever the
\* day of the reaction or of the reply: the Response it appends and the
\* PendingFollowUp it opens carry the date registered for the prompt, and the
\* reply appends its Response for the date of the PendingFollowUp.
C22_RecordedForPromptDate ==
  [][ /\ \A t \in DOMAIN daily_message_ts :
           /\ t \in DOMAIN daily_message_ts'
           /\ daily_message_ts'[t] = daily_message_ts[t]
      /\ \A u \in Humans, e \in ReactEmojis, t \in DOMAIN daily_message_ts :
           message_callback(CHAT_ID, ReactionMessage(u, e, FALSE, t))
           => ( /\ Len(responses') = Len(responses) + 1
                     <=> STATUS_MAP[e].prompt = None
                /\ Len(responses') = Len(responses) + 1
                     => /\ responses'[Len(responses')].user_id = u
                        /\ responses'[Len(responses')].response_date
                             = daily_message_ts[t]
                /\ STATUS_MAP[e].prompt # None
                     => /\ Pending(u)'
                        /\ update_status_ts'[u].response_date = daily_message_ts[t] )
      /\ \A u \in Humans, txt \in Texts, q \in 0 .. Len(delivered) :
           ( /\ Pending(u)
             /\ message_callback(Number(u), TextMessage(u, txt, q)) )
           => ( /\ Len(responses') = Len(responses) + 1
                /\ responses'[Len(responses')].response_date
                     = update_status_ts[u].response_date ) ]_vars

\* On Friday, after Friday's prompt has been posted, u1 has just checked in
\* on Thursday's prompt and the row is for Thursday.
C22_Witness ==
  /\ today = 4
  /\ \E t1, t2 \in DOMAIN daily_message_ts :
        /\ daily_message_ts[t1] = strftime(3)
        /\ daily_message_ts[t2] = strftime(4)
  /\ sent = << [to |-> "u1", what |-> "thanks", status |-> "In at Normal Time",
                date |-> strftime(3)] >>
  /\ \E i \in 1 .. Len(responses) :
        /\ responses[i].user_id = "u1"
        /\ responses[i].response_date = strftime(3)

\* ------------------------------------------------------- claims: summary
\* The members of the group other than the bot, in membership order.
MembersButBot ==
  LET kept == SelectSeq(GroupMembers, LAMBDA m : m.uuid \in Humans)
  IN  [ i \in 1 .. Len(kept) |-> kept[i].uuid ]

\* C23: the daily summary has exactly one line for every group member other
\* than the bot and none for the bot, in group-membership order, whatever
\* the order in which the Responses were recorded.
C23_OneLinePerMember ==
  SummaryPosted =>
    LET lines == sent[1].lines
    IN  /\ Len(lines) = Len(MembersButBot)
        /\ \A k \in 1 .. Len(lines) :
              lines[k].user_name = get_username_from_userid(MembersButBot[k])
        /\ \A u \in Humans :
              Cardinality({ k \in 1 .. Len(lines) :
                             lines[k].user_name = get_username_from_userid(u) }) = 1

\* The summary lists u1 before u2, each with the checked-in status, although
\* u2 checked in before u1.
C23_Witness ==
  /\ SummaryPosted
  /\ Len(responses) = 2
  /\ responses[1].user_id = "u2"
  /\ responses[2].user_id = "u1"
  /\ Len(sent[1].lines) = 2
  /\ sent[1].lines[1].user_name = "u1"
  /\ sent[1].lines[1].line.kind = "response"
  /\ sent[1].lines[2].user_name = "u2"
  /\ sent[1].lines[2].line.kind = "response"

\* --------------------------------------------------- claims: interleaving
\* The detail prompts sent to user u, by timestamp.
PromptsTo(u) == { q \in 1 .. Len(delivered) : delivered[q] = Number(u) }

\* C24: when the handlers of detail-required reactions of one user
\* interleave, the PendingFollowUp that is left once they have all returned
\* is that of the latest reaction, the one whose detail prompt was sent last.
C24_LaterReactionSurvives ==
  \A u \in Humans :
     ( /\ Pending(u)
       /\ \A h \in suspended : h.sender_uuid # u )
     => update_status_ts[u].timestamp = MaxOf(PromptsTo(u))

\* ------------------------------------------------------ claims: the chats
\* The messages user u can send in the direct chat with the bot: texts that
\* quote anything or nothing, and reactions.
DirectMessages(u) ==
  { TextMessage(u, txt, q) : txt \in Texts, q \in 0 .. Len(delivered) }
  \cup { ReactionMessage(u, "checkmark", FALSE, t) : t \in 0 .. Len(delivered) }

\* The events user u can cause in the group chat: texts, reactions and
\* removals of reactions, to check-in posts and to other messages.
GroupMessages(u) ==
  { TextMessage(u, txt, 0) : txt \in Texts }
  \cup { ReactionMessage(u, e, rm, t) :
           e \in ReactEmojis, rm \in BOOLEAN, t \in Targets }

\* C25: a PendingFollowUp is consumed by at most one message.  The direct
\* message of u that is taken as the reply removes the PendingFollowUp of u;
\* a direct message of u who has none writes no Response, changes no stored
\* row and opens nothing; and u gets a PendingFollowUp again only by
\* reacting to a check-in post.
C25_ConsumedOnce ==
  [][ \A u \in Humans :
        /\ \A m \in DirectMessages(u) :
              message_callback(Number(u), m)
              => /\ ~Pending(u)'
                 /\ ~Pending(u)
                      => /\ responses' = responses
                         /\ update_status_ts' = update_status_ts
        /\ (~Pending(u) /\ Pending(u)')
             => \E e \in ReactEmojis, t \in DOMAIN daily_message_ts :
                   message_callback(CHAT_ID, ReactionMessage(u, e, FALSE, t)) ]_vars

\* The reply of u1 has been recorded with its text, u1 has no follow-up
\* left, and the event after the reply wrote no second row.
C25_Witness ==
  /\ ~Pending("u1")
  /\ sent = << >>
  /\ Len(responses) = 1
  /\ responses[1].user_id = "u1"
  /\ responses[1].details = "9am"
  /\ PromptsTo("u1") # {}

C27_ConfigWriteKeepsJobsArmed ==
  [][ \A c \in ConfigCommands :
        Recomputation(c) =>
          \A job \in Jobs : ArmedFor(crons', job) # {} ]_vars

============================================================================
